---- MODULE Spec2Model ----
(***************************************************************************)
(* Celtic Orbit Explorer (src/Main.cpp): the viewport mapping, the four    *)
(* iteration formulas, the escape-time field evaluator, the orbit/period   *)
(* loop and the event/frame loop that drives them.                         *)
(*                                                                         *)
(* Numbers.  The program computes in IEEE-754 binary floating point        *)
(* (float).  The model keeps the structure of that arithmetic (a           *)
(* significand of MantBits bits, gradual underflow, round to nearest even  *)
(* after every operation, overflow to +-Inf, NaN) at a reduced width:     *)
(* a finite value is an integer n standing for n * 2^-FracBits whose       *)
(* binary expansion has at most MantBits significant bits and |n| <        *)
(* 2^TopBit.  The sign of zero is not represented (the program never       *)
(* divides by a value that can be zero).                                   *)
(***************************************************************************)
EXTENDS Integers, Sequences, FiniteSets, TLC

MantBits == 11
FracBits == 17
TopBit == 30

PInf == 2^TopBit
NInf == 0 - PInf
NaN == PInf + 1

IsNaN(x) == x = NaN
IsInf(x) == x = PInf \/ x = NInf
IsFinite(x) == x > NInf /\ x < PInf

Max(a, b) == IF a >= b THEN a ELSE b
IAbs(a) == IF a < 0 THEN 0 - a ELSE a
Sign(a) == IF a < 0 THEN 0 - 1 ELSE 1

\* number of significant bits of a natural number below 2^31
BitLen(n) ==
    LET B1(d) == IF d < 30 /\ n >= 2^(d + 1) THEN d + 2 ELSE d + 1
        B2(c) == B1(IF n >= 2^(c + 2) THEN c + 2 ELSE c)
        B4(b) == B2(IF n >= 2^(b + 4) THEN b + 4 ELSE b)
        B8(a) == B4(IF n >= 2^(a + 8) THEN a + 8 ELSE a)
    IN  IF n = 0 THEN 0 ELSE B8(IF n >= 2^16 THEN 16 ELSE 0)

\* sg * q * 2^e units, +-Inf when the magnitude reaches 2^TopBit
RndPack(sg, q, e) == IF BitLen(q) + e <= TopBit THEN sg * q * 2^e ELSE sg * PInf

\* a natural a of bl bits, times 2^k units, with its s lowest bits rounded
\* away (ties to even)
RndDrop(sg, a, bl, k, s) ==
    IF s <= 0 THEN RndPack(sg, a, k)
    ELSE IF s > bl \/ s > 30 THEN 0
    ELSE RndPack(sg,
                 IF a % 2^s > 2^(s - 1) \/ (a % 2^s = 2^(s - 1) /\ (a \div 2^s) % 2 = 1)
                 THEN a \div 2^s + 1
                 ELSE a \div 2^s,
                 k + s)

RndAbs(sg, a, bl, k) == RndDrop(sg, a, bl, k, Max(bl - MantBits, 0 - k))

\* the float nearest to the exact value m * 2^k units (ties to even),
\* +-Inf when the rounded magnitude reaches 2^TopBit
Rnd(m, k) == IF m = 0 THEN 0 ELSE RndAbs(Sign(m), IAbs(m), BitLen(IAbs(m)), k)

\* a finite float as significand * 2^exponent units, |significand| < 2^MantBits
Expo(n) == Max(BitLen(IAbs(n)) - MantBits, 0)
Mant(n) == n \div 2^Expo(n)

FromInt(i) == Rnd(i, FracBits)

FNeg(x) == IF IsNaN(x) THEN NaN ELSE 0 - x

FAbs(x) == IF IsNaN(x) THEN NaN ELSE IAbs(x)

FAdd(x, y) ==
    IF IsNaN(x) \/ IsNaN(y) THEN NaN
    ELSE IF IsInf(x) THEN (IF IsInf(y) /\ y # x THEN NaN ELSE x)
    ELSE IF IsInf(y) THEN y
    ELSE Rnd(x + y, 0)

FSub(x, y) == FAdd(x, FNeg(y))

FMul(x, y) ==
    IF IsNaN(x) \/ IsNaN(y) THEN NaN
    ELSE IF IsInf(x) \/ IsInf(y)
         THEN (IF x = 0 \/ y = 0 THEN NaN ELSE Sign(x) * Sign(y) * PInf)
    ELSE Rnd(Mant(x) * Mant(y), Expo(x) + Expo(y) - FracBits)

\* the quotient of the significands mx / my, mx scaled to 2 * MantBits + 2
\* bits, with a sticky bit for the remainder, rounded at exponent e
DivQuot(sg, n, my, e) == Rnd(sg * (2 * (n \div my) + (IF n % my = 0 THEN 0 ELSE 1)), e)
DivScale(sg, mx, my, e, j) == DivQuot(sg, mx * 2^j, my, e - j)
DivMant(sg, mx, my, e) == DivScale(sg, mx, my, e, 2 * MantBits + 2 - BitLen(mx))

FDiv(x, y) ==
    IF IsNaN(x) \/ IsNaN(y) THEN NaN
    ELSE IF IsInf(x) THEN (IF IsInf(y) THEN NaN ELSE Sign(x) * Sign(y) * PInf)
    ELSE IF IsInf(y) THEN 0
    ELSE IF y = 0 THEN (IF x = 0 THEN NaN ELSE Sign(x) * PInf)
    ELSE IF x = 0 THEN 0
    ELSE DivMant(Sign(x) * Sign(y), IAbs(Mant(x)), IAbs(Mant(y)),
                 Expo(x) - Expo(y) + FracBits - 1)

\* exact product of two naturals below 2^20 as <<high, low>> in base 2^20
WLow(xh, xl, yh, yl) == ((xh * yl + xl * yh) % 1024) * 1024 + xl * yl
WPack(hi, low) == <<hi + low \div 2^20, low % 2^20>>
WParts(xh, xl, yh, yl) ==
    WPack(xh * yh + (xh * yl + xl * yh) \div 1024, WLow(xh, xl, yh, yl))
WMul(x, y) == WParts(x \div 1024, x % 1024, y \div 1024, y % 1024)

\* a^2 + b^2 > t^2 for naturals a, b <= t < 2^19, computed exactly
WSumGt(pa, pb, pt) ==
    \/ pa[1] + pb[1] + (pa[2] + pb[2]) \div 2^20 > pt[1]
    \/ /\ pa[1] + pb[1] + (pa[2] + pb[2]) \div 2^20 = pt[1]
       /\ (pa[2] + pb[2]) % 2^20 > pt[2]
SumSqGt(a, b, t) == WSumGt(WMul(a, a), WMul(b, b), WMul(t, t))

\* std::abs(complex<float>) > t for a float t = tu units that is a power of
\* two >= 1: the magnitude is hypot(re, im) rounded to float (Inf when a
\* part is infinite, else NaN when a part is NaN); the rounded value exceeds
\* t exactly when the exact one exceeds t plus half the spacing above t
HypotGtAbs(a, b, t) == a > t \/ b > t \/ SumSqGt(a, b, t)
HypotGt(re, im, tu) ==
    IF IsInf(re) \/ IsInf(im) THEN TRUE
    ELSE IF IsNaN(re) \/ IsNaN(im) THEN FALSE
    ELSE HypotGtAbs(IAbs(re), IAbs(im), tu + tu \div 2^MantBits)

\* std::abs(complex<float>) < 1e-4 (the float magnitude compared as double):
\* below 2^MantBits units every integer is a float, so the rounded magnitude
\* is the integer nearest to the exact one, and it is below the tolerance
\* when it is at most TolUnits
TolUnits == 2^FracBits \div 10000
HypotLtTol(dx, dy) ==
    /\ IsFinite(dx) /\ IsFinite(dy)
    /\ IAbs(dx) <= TolUnits /\ IAbs(dy) <= TolUnits
    /\ 4 * (dx * dx + dy * dy) < (2 * TolUnits + 1) * (2 * TolUnits + 1)

(***************************************************************************)
(* Program constants                                                       *)
(***************************************************************************)
width == 800
height == 600
maxIter == 100
maxOrbit == 1000
ZoomInit == 250
NumFormulas == 4

Two == FromInt(2)
zoomFactor == FDiv(FromInt(12), FromInt(10))

Complex(re, im) == [re |-> re, im |-> im]
Vec(x, y) == [x |-> x, y |-> y]

CAdd(a, b) == Complex(FAdd(a.re, b.re), FAdd(a.im, b.im))
CSub(a, b) == Complex(FSub(a.re, b.re), FSub(a.im, b.im))

\* std::abs(z) > 2.0f
AbsGt2(z) == HypotGt(z.re, z.im, Two)
\* std::abs(z) is a number and <= 2.0f
AbsLe2(z) == ~IsNaN(z.re) /\ ~IsNaN(z.im) /\ ~AbsGt2(z)
\* std::abs(z - p) < 1e-4
Near(z, p) == HypotLtTol(FSub(z.re, p.re), FSub(z.im, p.im))

screenToComplex(x, y, zm, off, w, h) ==
    Complex(FDiv(FSub(FAdd(FromInt(x), off.x), FDiv(FromInt(w), Two)), zm),
            FDiv(FSub(FAdd(FromInt(y), off.y), FDiv(FromInt(h), Two)), zm))

\* fault variant of complexToScreen: the offset added instead of subtracted
complexToScreenPlus(p, zm, off, w, h) ==
    Vec(FAdd(FAdd(FMul(p.re, zm), FDiv(FromInt(w), Two)), off.x),
        FAdd(FAdd(FMul(p.im, zm), FDiv(FromInt(h), Two)), off.y))

\* the inverse transform used for drawing the Julia marker and the orbit path
complexToScreen(p, zm, off, w, h) ==
    Vec(FSub(FAdd(FMul(p.re, zm), FDiv(FromInt(w), Two)), off.x),
        FSub(FAdd(FMul(p.im, zm), FDiv(FromInt(h), Two)), off.y))

Re2(z) == FSub(FMul(z.re, z.re), FMul(z.im, z.im))
Im2(z) == FMul(FMul(Two, z.re), z.im)

formula1(z, c) == CAdd(Complex(FAbs(Re2(z)), Im2(z)), c)
formula2(z, c) == CAdd(Complex(FAbs(Re2(z)), FAbs(Im2(z))), c)
formula3(z, c) == CAdd(Complex(Re2(z), FNeg(Im2(z))), c)
formula4(z, c) ==
    CAdd(Complex(FAbs(FAdd(FMul(z.re, FAbs(z.re)), FMul(z.im, z.im))), Im2(z)), c)

formulas(i, z, c) ==
    CASE i = 0 -> formula1(z, c)
      [] i = 1 -> formula2(z, c)
      [] i = 2 -> formula3(z, c)
      [] i = 3 -> formula4(z, c)

InGrid(m) == m.x >= 0 /\ m.x < width /\ m.y >= 0 /\ m.y < height

\* the complex point under a screen position for a viewport
MapPoint(m, zm, off) == screenToComplex(m.x, m.y, zm, off, width, height)

(***************************************************************************)
(* Orbit / period loop of main (the locals z, cc, period, orbit, found;    *)
(* broke records that the loop was left by break)                          *)
(***************************************************************************)
\* the loops below are run to their exit in blocks of BlockLen passes
BlockLen == 32

\* initial value and constant term for the mouse point
OrbitSeed(c, jm, jc) == [z |-> c, cc |-> IF jm THEN jc ELSE c]

OrbitStart(seed) ==
    [z |-> seed.z, cc |-> seed.cc, period |-> 0, orbit |-> <<>>,
     found |-> FALSE, broke |-> FALSE]

\* fault variant of Recurs: the scan bound written j <= period
RecursInclusive(z, orbit, period) == \E j \in 1..(period + 1) : Near(z, orbit[j])

\* the scan of the earlier iterates orbit[0 .. period-1]
Recurs(z, orbit, period) == \E j \in 1..period : Near(z, orbit[j])

\* fault variant of OrbitTest: ++period also on the pass that breaks
OrbitTestCounting(o, z2, orbit2, found2, brk) ==
    [z |-> z2, cc |-> o.cc, period |-> o.period + 1,
     orbit |-> orbit2, found |-> found2, broke |-> brk]

\* one pass through the body of the for loop
OrbitTest(o, z2, orbit2, found2, brk) ==
    [z |-> z2, cc |-> o.cc,
     period |-> IF brk THEN o.period ELSE o.period + 1,
     orbit |-> orbit2, found |-> found2, broke |-> brk]
\* fault variant of OrbitScan: the escape test reads z before the update
OrbitScanLate(o, z2, orbit2, found2) ==
    OrbitTest(o, z2, orbit2, found2, found2 \/ AbsGt2(o.z))
\* fault variant of OrbitScan: the escape test made before the scan, so that
\* an escaping iterate is never reported as a recurrence
OrbitScanEscapeFirst(o, z2, orbit2, found2) ==
    OrbitTest(o, z2, orbit2, found2 /\ ~AbsGt2(z2), found2 \/ AbsGt2(z2))
OrbitScan(o, z2, orbit2, found2) ==
    OrbitTest(o, z2, orbit2, found2, found2 \/ AbsGt2(z2))
OrbitPush(o, z2, orbit2) == OrbitScan(o, z2, orbit2, Recurs(z2, orbit2, o.period))
OrbitApply(o, z2) == OrbitPush(o, z2, Append(o.orbit, z2))
OrbitBody(o, fi) == OrbitApply(o, formulas(fi, o.z, o.cc))

\* fault variant of OrbitRunning: the loop condition written period <= maxOrbit
OrbitRunningInclusive(o) == ~o.broke /\ o.period <= maxOrbit
OrbitRunning(o) == ~o.broke /\ o.period < maxOrbit

\* the for loop run to its exit
RECURSIVE OrbitRun(_, _, _)
OrbitRun(o, fi, n) ==
    IF n = 0 \/ ~OrbitRunning(o) THEN o ELSE OrbitRun(OrbitBody(o, fi), fi, n - 1)
RECURSIVE OrbitBlocks(_, _, _)
OrbitBlocks(o, fi, b) ==
    IF b = 0 \/ ~OrbitRunning(o) THEN o
    ELSE OrbitBlocks(OrbitRun(o, fi, BlockLen), fi, b - 1)
OrbitLoop(o, fi) == OrbitBlocks(o, fi, maxOrbit \div BlockLen + 1)

(***************************************************************************)
(* computeFractal: the evaluation of one pixel (the locals c, z, cc, iter; *)
(* broke records that the loop was left by break)                          *)
(***************************************************************************)
\* fault variant of FieldSeed: the branches of the constant term exchanged
FieldSeedSwapped(c, jm, jc) == [z |-> IF jm THEN c ELSE c, cc |-> IF jm THEN c ELSE jc]
FieldSeed(c, jm, jc) == [z |-> IF jm THEN c ELSE c, cc |-> IF jm THEN jc ELSE c]

CellStart(px, py, seed) ==
    [px |-> px, py |-> py, z |-> seed.z, cc |-> seed.cc, iter |-> 0, broke |-> FALSE]

\* one pass through the body of the iteration loop, with its ++iter
CellTest(p, z2, brk) ==
    [px |-> p.px, py |-> p.py, z |-> z2, cc |-> p.cc,
     iter |-> IF brk THEN p.iter ELSE p.iter + 1, broke |-> brk]
\* fault variant of CellApply: the escape test reads z before the update
CellApplyLate(p, z2) == CellTest(p, z2, AbsGt2(p.z))
CellApply(p, z2) == CellTest(p, z2, AbsGt2(z2))
CellBody(p, fi) == CellApply(p, formulas(fi, p.z, p.cc))

\* fault variant of CellRunning: the loop condition written iter <= maxIter
CellRunningInclusive(p) == ~p.broke /\ p.iter <= maxIter
CellRunning(p) == ~p.broke /\ p.iter < maxIter

\* the iteration loop of a pixel, run to its exit
RECURSIVE CellRun(_, _, _)
CellRun(p, fi, n) ==
    IF n = 0 \/ ~CellRunning(p) THEN p ELSE CellRun(CellBody(p, fi), fi, n - 1)
RECURSIVE CellBlocks(_, _, _)
CellBlocks(p, fi, b) ==
    IF b = 0 \/ ~CellRunning(p) THEN p
    ELSE CellBlocks(CellRun(p, fi, BlockLen), fi, b - 1)
CellLoop(p, fi) == CellBlocks(p, fi, maxIter \div BlockLen + 1)

\* static_cast<sf::Uint8>(255 * iter / maxIter)
Grey(iter) == ((255 * iter) \div maxIter) % 256

(***************************************************************************)
(* Event handlers of main as functions of the viewport                     *)
(***************************************************************************)
\* fault variant of WheelZoom: a negative delta multiplies by -zoomFactor
WheelZoomNegated(zm, delta) ==
    IF delta > 0 THEN FMul(zm, zoomFactor)
    ELSE IF delta < 0 THEN FMul(zm, FNeg(zoomFactor))
    ELSE zm

\* MouseWheelScrolled: zoom by the sign of delta, then adjust offset
WheelZoom(zm, delta) ==
    IF delta > 0 THEN FMul(zm, zoomFactor)
    ELSE IF delta < 0 THEN FDiv(zm, zoomFactor)
    ELSE zm

WheelOffset(off, beforeZoom, afterZoom, zm) ==
    Vec(FAdd(off.x, FMul(FSub(afterZoom.re, beforeZoom.re), zm)),
        FAdd(off.y, FMul(FSub(afterZoom.im, beforeZoom.im), zm)))

WheelAdjust(v, m, beforeZoom, zm) ==
    [zoom |-> zm,
     offset |-> WheelOffset(v.offset, beforeZoom, MapPoint(m, zm, v.offset), zm)]
WheelScrolled(v, m, delta) ==
    WheelAdjust(v, m, MapPoint(m, v.zoom, v.offset), WheelZoom(v.zoom, delta))

\* the camera drag of a frame: offset = dragStartOffset - (mouse - lastMousePos)
DragOffset(start, m, last) ==
    Vec(FSub(start.x, FromInt(m.x - last.x)), FSub(start.y, FromInt(m.y - last.y)))

\* n wheel events of the same direction at one mouse position (a viewport
\* that an event leaves unchanged is left unchanged by the later ones too)
RECURSIVE Wheels(_, _, _, _)
WheelsNext(v, w, m, delta, n) == IF v = w THEN v ELSE Wheels(w, m, delta, n - 1)
Wheels(v, m, delta, n) ==
    IF n = 0 THEN v ELSE WheelsNext(v, WheelScrolled(v, m, delta), m, delta, n)

\* a camera drag from the window origin by the mouse movement d
Dragged(v, d) == [zoom |-> v.zoom, offset |-> DragOffset(v.offset, d, Vec(0, 0))]

VARIABLES zoom, offset, juliaMode, juliaC, formulaIndex, needsUpdate,
          dragging, lastMousePos, dragStartOffset,
          mousePeriod, mouseOrbit, lastPeriod, fractalImage,
          juliaMarker, mouse, keyJ, keyAlt, nEvents,
          pc, orb, opc, cell, fpc

vars == <<zoom, offset, juliaMode, juliaC, formulaIndex, needsUpdate,
          dragging, lastMousePos, dragStartOffset,
          mousePeriod, mouseOrbit, lastPeriod, fractalImage,
          juliaMarker, mouse, keyJ, keyAlt, nEvents, pc, orb, opc, cell, fpc>>

viewVars == <<zoom, offset, juliaMode, juliaC, formulaIndex>>
uiVars == <<needsUpdate, dragging, lastMousePos, dragStartOffset, lastPeriod,
            juliaMarker, keyJ, keyAlt, nEvents, pc>>
fieldVars == <<fractalImage, cell, fpc>>
orbitVars == <<mousePeriod, mouseOrbit, orb, opc>>

Centre == Vec(400, 300)
Origin == Vec(0, 0)
View0 == [zoom |-> FromInt(ZoomInit), offset |-> Vec(0, 0)]
NoOrbit == OrbitStart(OrbitSeed(Complex(0, 0), FALSE, Complex(0, 0)))
NoMarker == [shown |-> FALSE, x |-> 0, y |-> 0]
NoCell == CellStart(0, 0, FieldSeed(Complex(0, 0), FALSE, Complex(0, 0)))

\* the pixels of the image that the model follows, in the order of the
\* loops of computeFractal (px outer, py inner)
CellSeq ==
    <<Vec(0, 0), Vec(0, 300), Vec(200, 0), Vec(200, 300),
      Vec(400, 0), Vec(400, 300), Vec(700, 0), Vec(700, 300)>>
NumCells == Len(CellSeq)

\* fractalImage.create(width, height, sf::Color::Black)
Black == [i \in 1..NumCells |-> 0]

\* computeFractal(zoom, offset, juliaMode, juliaC, formulaIndex): the grey
\* level written for each followed pixel
computeFractal(zm, off, jm, jc, fi) ==
    [i \in 1..NumCells |->
        Grey(CellLoop(CellStart(CellSeq[i].x, CellSeq[i].y,
                                FieldSeed(MapPoint(CellSeq[i], zm, off), jm, jc)),
                      fi).iter)]

(***************************************************************************)
(* Spec: the main loop.  An event action is one pass of the pollEvent      *)
(* loop; the rest of a pass of the main loop is FrameDrag, FrameJulia and  *)
(* FrameDraw, each of which begins with a read of the mouse position.  The *)
(* mouse position and the J and Alt key states belong to the environment   *)
(* and may change between any two steps of the program.  pc is the         *)
(* position in the main loop: "top" when a frame has just been displayed   *)
(* (or none has run yet), "poll" once an event or an input change has      *)
(* occurred since, "julia" before the Julia mode handling of a frame and   *)
(* "orbit" before its orbit query.  The Closed event ends the run and is   *)
(* not followed.                                                           *)
(***************************************************************************)
MaxEvents == 3
MousePos == {Centre, Vec(150, 300), Vec(0 - 10, 300)}
Deltas == {0 - 1, 0, 1}

Init ==
    /\ zoom = View0.zoom /\ offset = View0.offset
    /\ juliaMode = FALSE /\ juliaC = Complex(0, 0)
    /\ formulaIndex = 0
    /\ fractalImage = computeFractal(View0.zoom, View0.offset, FALSE, Complex(0, 0), 0)
    /\ lastPeriod = 0 - 1
    /\ needsUpdate = FALSE
    /\ dragging = FALSE /\ lastMousePos = Origin /\ dragStartOffset = Vec(0, 0)
    /\ mousePeriod = 0 - 1 /\ mouseOrbit = <<>>
    /\ juliaMarker = NoMarker
    /\ mouse = Centre /\ keyJ = FALSE /\ keyAlt = FALSE
    /\ nEvents = 0 /\ pc = "top"
    /\ orb = NoOrbit /\ opc = "off" /\ cell = NoCell /\ fpc = "idle"

\* an event is polled between two frames
Occurs ==
    /\ opc = "off"
    /\ pc \in {"top", "poll"}
    /\ nEvents < MaxEvents
    /\ nEvents' = nEvents + 1
    /\ pc' = "poll"

\* an input of the environment changes, at any position of the main loop
Changes ==
    /\ opc = "off"
    /\ nEvents < MaxEvents
    /\ nEvents' = nEvents + 1
    /\ pc' = IF pc = "top" THEN "poll" ELSE pc

MouseMoved ==
    /\ Changes
    /\ \E m \in MousePos : m # mouse /\ mouse' = m
    /\ UNCHANGED <<viewVars, needsUpdate, dragging, lastMousePos, dragStartOffset,
                   lastPeriod, juliaMarker, keyJ, keyAlt, fieldVars, orbitVars>>

KeyJChanged ==
    /\ Changes
    /\ keyJ' = ~keyJ
    /\ UNCHANGED <<viewVars, needsUpdate, dragging, lastMousePos, dragStartOffset,
                   lastPeriod, juliaMarker, mouse, keyAlt, fieldVars, orbitVars>>

KeyAltChanged ==
    /\ Changes
    /\ keyAlt' = ~keyAlt
    /\ UNCHANGED <<viewVars, needsUpdate, dragging, lastMousePos, dragStartOffset,
                   lastPeriod, juliaMarker, mouse, keyJ, fieldVars, orbitVars>>

\* the body of the MouseWheelScrolled handler for the scroll delta
WheelHandler(delta) ==
    /\ \E v \in {WheelScrolled([zoom |-> zoom, offset |-> offset], mouse, delta)} :
         /\ zoom' = v.zoom
         /\ offset' = v.offset
    /\ needsUpdate' = TRUE
    /\ UNCHANGED <<juliaMode, juliaC, formulaIndex, dragging, lastMousePos,
                   dragStartOffset, lastPeriod, juliaMarker, mouse, keyJ, keyAlt,
                   fieldVars, orbitVars>>

\* sf::Event::MouseWheelScrolled
MouseWheelScrolled == Occurs /\ \E delta \in Deltas : WheelHandler(delta)

\* sf::Event::MouseButtonPressed, left button: the drag starts when Alt is held
MouseButtonPressed ==
    /\ Occurs
    /\ IF keyAlt
       THEN /\ dragging' = TRUE
            /\ lastMousePos' = mouse
            /\ dragStartOffset' = offset
       ELSE UNCHANGED <<dragging, lastMousePos, dragStartOffset>>
    /\ UNCHANGED <<viewVars, needsUpdate, lastPeriod, juliaMarker, mouse, keyJ, keyAlt,
                   fieldVars, orbitVars>>

\* sf::Event::MouseButtonReleased, left button
MouseButtonReleased ==
    /\ Occurs
    /\ dragging' = FALSE
    /\ UNCHANGED <<viewVars, needsUpdate, lastMousePos, dragStartOffset, lastPeriod,
                   juliaMarker, mouse, keyJ, keyAlt, fieldVars, orbitVars>>

\* sf::Event::LostFocus
LostFocus ==
    /\ Occurs
    /\ dragging' = FALSE
    /\ UNCHANGED <<viewVars, needsUpdate, lastMousePos, dragStartOffset, lastPeriod,
                   juliaMarker, mouse, keyJ, keyAlt, fieldVars, orbitVars>>

\* the key codes followed: the digit keys of both rows and one other key
NumKeys == <<"Num1", "Num2", "Num3", "Num4">>
NumpadKeys == <<"Numpad1", "Numpad2", "Numpad3", "Numpad4">>
KeyCodes == {NumKeys[n] : n \in 1..4} \cup {NumpadKeys[n] : n \in 1..4} \cup {"J"}

\* event.key.code == sf::Keyboard::Num<n> || event.key.code == sf::Keyboard::Numpad<n>
KeyIs(code, n) == code = NumKeys[n] \/ code = NumpadKeys[n]

\* fault variant of KeyIf: the index taken as n modulo the number of formulas
KeyIfWrapped(st, code, n) ==
    IF KeyIs(code, n) THEN [formulaIndex |-> n % NumFormulas, needsUpdate |-> TRUE] ELSE st

\* one if statement of the formula switching: formulaIndex = n - 1; needsUpdate = true
KeyIf(st, code, n) ==
    IF KeyIs(code, n) THEN [formulaIndex |-> n - 1, needsUpdate |-> TRUE] ELSE st

\* the four if statements in their order
KeySwitch(st, code) == KeyIf(KeyIf(KeyIf(KeyIf(st, code, 1), code, 2), code, 3), code, 4)

\* sf::Event::KeyPressed with the key code
KeyPressedCode(code) ==
    /\ Occurs
    /\ \E st \in {KeySwitch([formulaIndex |-> formulaIndex, needsUpdate |-> needsUpdate],
                            code)} :
         /\ formulaIndex' = st.formulaIndex
         /\ needsUpdate' = st.needsUpdate
    /\ UNCHANGED <<zoom, offset, juliaMode, juliaC, dragging, lastMousePos,
                   dragStartOffset, lastPeriod, juliaMarker, mouse, keyJ, keyAlt,
                   fieldVars, orbitVars>>

\* sf::Event::KeyPressed
KeyPressed == \E code \in KeyCodes : KeyPressedCode(code)

\* fault variant of FrameDrag: the Alt keys are not asked for
FrameDragNoAlt ==
    /\ opc = "off"
    /\ pc \in {"top", "poll"}
    /\ IF dragging
       THEN /\ offset' = DragOffset(dragStartOffset, mouse, lastMousePos)
            /\ needsUpdate' = TRUE
       ELSE UNCHANGED <<offset, needsUpdate>>
    /\ pc' = "julia"
    /\ UNCHANGED <<zoom, juliaMode, juliaC, formulaIndex, dragging, lastMousePos,
                   dragStartOffset, lastPeriod, juliaMarker, mouse, keyJ, keyAlt,
                   nEvents, fieldVars, orbitVars>>

\* the camera dragging logic of a frame
FrameDrag ==
    /\ opc = "off"
    /\ pc \in {"top", "poll"}
    /\ IF dragging /\ keyAlt
       THEN /\ offset' = DragOffset(dragStartOffset, mouse, lastMousePos)
            /\ needsUpdate' = TRUE
       ELSE UNCHANGED <<offset, needsUpdate>>
    /\ pc' = "julia"
    /\ UNCHANGED <<zoom, juliaMode, juliaC, formulaIndex, dragging, lastMousePos,
                   dragStartOffset, lastPeriod, juliaMarker, mouse, keyJ, keyAlt,
                   nEvents, fieldVars, orbitVars>>

\* fault variant of FrameJulia: the mode, once entered, is kept
FrameJuliaSticky ==
    /\ opc = "off"
    /\ pc = "julia"
    /\ IF keyJ
       THEN /\ juliaC' = MapPoint(mouse, zoom, offset)
            /\ needsUpdate' = TRUE
       ELSE UNCHANGED <<juliaC, needsUpdate>>
    /\ juliaMode' = (juliaMode \/ keyJ)
    /\ pc' = "orbit"
    /\ UNCHANGED <<zoom, offset, formulaIndex, dragging, lastMousePos,
                   dragStartOffset, lastPeriod, juliaMarker, mouse, keyJ, keyAlt,
                   nEvents, fieldVars, orbitVars>>

\* the Julia mode handling of a frame: juliaC follows the mouse while J is held
FrameJulia ==
    /\ opc = "off"
    /\ pc = "julia"
    /\ IF keyJ
       THEN /\ juliaC' = MapPoint(mouse, zoom, offset)
            /\ needsUpdate' = TRUE
       ELSE UNCHANGED <<juliaC, needsUpdate>>
    /\ juliaMode' = keyJ
    /\ pc' = "orbit"
    /\ UNCHANGED <<zoom, offset, formulaIndex, dragging, lastMousePos,
                   dragStartOffset, lastPeriod, juliaMarker, mouse, keyJ, keyAlt,
                   nEvents, fieldVars, orbitVars>>

\* the orbit query of the frame and the period display
FrameOrbit(o) ==
    IF InGrid(mouse)
    THEN /\ mousePeriod' = o.period
         /\ mouseOrbit' = o.orbit
         /\ lastPeriod' = o.period
    ELSE /\ mousePeriod' = 0 - 1
         /\ mouseOrbit' = <<>>
         /\ lastPeriod' = 0 - 1

\* the Julia point marker of the frame
FrameMarker(p) == [shown |-> TRUE, x |-> p.x, y |-> p.y]

\* the rest of the frame: orbit query at the mouse, recomputation of the
\* field when needsUpdate, drawing
FrameDraw ==
    /\ opc = "off"
    /\ pc = "orbit"
    /\ FrameOrbit(IF InGrid(mouse)
                  THEN OrbitLoop(OrbitStart(OrbitSeed(MapPoint(mouse, zoom, offset),
                                                      juliaMode, juliaC)),
                                 formulaIndex)
                  ELSE NoOrbit)
    /\ fractalImage' = IF needsUpdate
                       THEN computeFractal(zoom, offset, juliaMode, juliaC, formulaIndex)
                       ELSE fractalImage
    /\ needsUpdate' = FALSE
    /\ juliaMarker' = IF juliaMode
                      THEN FrameMarker(complexToScreen(juliaC, zoom, offset, width, height))
                      ELSE NoMarker
    /\ pc' = "top"
    /\ UNCHANGED <<viewVars, dragging, lastMousePos, dragStartOffset,
                   mouse, keyJ, keyAlt, nEvents, cell, fpc, orb, opc>>

Next ==
    \/ MouseMoved \/ KeyJChanged \/ KeyAltChanged
    \/ MouseWheelScrolled \/ MouseButtonPressed \/ MouseButtonReleased
    \/ LostFocus \/ KeyPressed
    \/ FrameDrag \/ FrameJulia \/ FrameDraw

Spec == Init /\ [][Next]_vars

(***************************************************************************)
(* SpecPan: the main loop of a run in which an Alt key is already held     *)
(* when the window opens, so that a camera drag, a mouse movement and a    *)
(* wheel event fit in MaxEvents events                                     *)
(***************************************************************************)
InitPan ==
    /\ zoom = View0.zoom /\ offset = View0.offset
    /\ juliaMode = FALSE /\ juliaC = Complex(0, 0)
    /\ formulaIndex = 0
    /\ fractalImage = computeFractal(View0.zoom, View0.offset, FALSE, Complex(0, 0), 0)
    /\ lastPeriod = 0 - 1
    /\ needsUpdate = FALSE
    /\ dragging = FALSE /\ lastMousePos = Origin /\ dragStartOffset = Vec(0, 0)
    /\ mousePeriod = 0 - 1 /\ mouseOrbit = <<>>
    /\ juliaMarker = NoMarker
    /\ mouse = Centre /\ keyJ = FALSE /\ keyAlt = TRUE
    /\ nEvents = 0 /\ pc = "top"
    /\ orb = NoOrbit /\ opc = "off" /\ cell = NoCell /\ fpc = "idle"

SpecPan == InitPan /\ [][Next]_vars

(***************************************************************************)
(* SpecZoom: wheel events without end.  zoom is assigned only by the       *)
(* wheel handler, from its old value and the sign of the scroll delta, so  *)
(* the values it can take in any run are those of the runs of wheel events *)
(* alone; the mouse stays at the window centre, which keeps the set of     *)
(* viewports small.  The events are not counted: the floats are finitely   *)
(* many.                                                                   *)
(***************************************************************************)
WheelTurned ==
    /\ opc = "off"
    /\ pc \in {"top", "poll"}
    /\ pc' = "poll"
    /\ nEvents' = nEvents
    /\ \E delta \in Deltas : WheelHandler(delta)

SpecZoom == Init /\ [][WheelTurned]_vars

(***************************************************************************)
(* The orbit query of a frame (the mouse read, the seed and the period     *)
(* loop), step by step, from inputs a frame can meet: the initial viewport *)
(* or a viewport after wheel notches, any formula chosen by the keys 1-4,  *)
(* either mode, and a Julia constant taken from a mouse position of that   *)
(* viewport                                                                *)
(***************************************************************************)
MaxWheelUp == 20
MaxWheelDown == 3
\* evaluations followed one after the other in a behaviour
MaxQueries == 2
\* where the mouse is at the later orbit queries
AgainMouse == {Vec(150, 300), Vec(0 - 10, 300)}

\* the viewport after MaxWheelUp wheel notches up at the window centre
ViewFar == Wheels(View0, Centre, 1, MaxWheelUp)

\* runs of wheel notches <<direction, count>> at the window centre that take
\* the zoom from 250 to 514.5
DeepRuns ==
    <<<<0 - 1, 14>>, <<1, 3>>, <<0 - 1, 14>>, <<1, 3>>, <<0 - 1, 7>>,
      <<1, 22>>, <<0 - 1, 3>>, <<1, 14>>, <<0 - 1, 3>>, <<1, 3>>>>
\* the first n runs of wheel events of runs, at one mouse position
RECURSIVE WheelRuns(_, _, _, _)
WheelRuns(v, m, runs, n) ==
    IF n = 0 THEN v
    ELSE Wheels(WheelRuns(v, m, runs, n - 1), m, runs[n][1], runs[n][2])

\* that viewport after a camera drag of 738 pixels to the right; the mouse
\* positions at which the frame reads the Julia constant (left of the
\* window) and the orbit seed
ViewDeep == Dragged(WheelRuns(View0, Centre, DeepRuns, Len(DeepRuns)), Vec(738, 0))
DeepJuliaMouse == Vec(0 - 112, 214)
DeepMouse == Vec(799, 277)

OrbitViews ==
    {View0, WheelScrolled(View0, Centre, 1), WheelScrolled(View0, Vec(150, 300), 0 - 1)}
OrbitMouse ==
    {Vec(400, 300), Vec(150, 300), Vec(0, 0), Vec(425, 50), Vec(375, 300),
     Vec(450, 250), Vec(0 - 10, 300), Vec(400, 600)}
JuliaMouse == {Vec(400, 300), Vec(150, 300), Vec(700, 300)}

InitOrbit ==
    /\ \/ /\ juliaMode \in BOOLEAN
          /\ \E v \in OrbitViews :
               /\ zoom = v.zoom
               /\ offset = v.offset
               /\ juliaC \in IF juliaMode
                             THEN {MapPoint(m, v.zoom, v.offset) : m \in JuliaMouse}
                             ELSE {Complex(0, 0)}
          /\ formulaIndex \in 0..(NumFormulas - 1)
          /\ mouse \in OrbitMouse
       \/ /\ juliaMode = FALSE
          /\ zoom = ViewFar.zoom
          /\ offset = ViewFar.offset
          /\ juliaC = Complex(0, 0)
          /\ formulaIndex = 0
          /\ mouse = Centre
       \/ /\ juliaMode = TRUE
          /\ zoom = ViewDeep.zoom
          /\ offset = ViewDeep.offset
          /\ juliaC = MapPoint(DeepJuliaMouse, ViewDeep.zoom, ViewDeep.offset)
          /\ formulaIndex = NumFormulas - 1
          /\ mouse = DeepMouse
    /\ needsUpdate = FALSE /\ dragging = FALSE
    /\ lastMousePos = Origin /\ dragStartOffset = Vec(0, 0)
    /\ mousePeriod = 0 - 1 /\ mouseOrbit = <<>> /\ lastPeriod = 0 - 1
    /\ fractalImage = Black /\ juliaMarker = NoMarker
    /\ keyJ = juliaMode /\ keyAlt = FALSE /\ nEvents = 0 /\ pc = "orbit"
    /\ orb = NoOrbit /\ opc = "start"
    /\ cell = NoCell /\ fpc = "idle"

\* fault variant of OrbitBegin: the orbit vector of the previous query is kept
OrbitBeginCarry ==
    /\ opc = "start"
    /\ mousePeriod' = 0 - 1
    /\ mouseOrbit' = <<>>
    /\ IF InGrid(mouse)
       THEN /\ orb' = [OrbitStart(OrbitSeed(MapPoint(mouse, zoom, offset), juliaMode, juliaC))
                          EXCEPT !.orbit = orb.orbit]
            /\ opc' = "loop"
       ELSE /\ orb' = orb
            /\ opc' = "done"
    /\ UNCHANGED <<viewVars, uiVars, fieldVars, mouse>>

\* mousePeriod = -1; mouseOrbit.clear(); seed the loop when the mouse is in the grid
OrbitBegin ==
    /\ opc = "start"
    /\ mousePeriod' = 0 - 1
    /\ mouseOrbit' = <<>>
    /\ IF InGrid(mouse)
       THEN /\ orb' = OrbitStart(OrbitSeed(MapPoint(mouse, zoom, offset), juliaMode, juliaC))
            /\ opc' = "loop"
       ELSE /\ orb' = orb
            /\ opc' = "done"
    /\ UNCHANGED <<viewVars, uiVars, fieldVars, mouse>>

OrbitStep ==
    /\ opc = "loop"
    /\ OrbitRunning(orb)
    /\ orb' = OrbitBody(orb, formulaIndex)
    /\ UNCHANGED <<viewVars, uiVars, fieldVars, mouse, mousePeriod, mouseOrbit, opc>>

\* mousePeriod = period; mouseOrbit = orbit
OrbitEnd ==
    /\ opc = "loop"
    /\ ~OrbitRunning(orb)
    /\ mousePeriod' = orb.period
    /\ mouseOrbit' = orb.orbit
    /\ opc' = "done"
    /\ UNCHANGED <<viewVars, uiVars, fieldVars, mouse, orb>>

\* the next pass of the main loop comes to its orbit query with the mouse
\* somewhere else; mousePeriod, mouseOrbit and the locals are as the
\* previous query left them
OrbitAgain ==
    /\ opc = "done"
    /\ nEvents < MaxQueries - 1
    /\ nEvents' = nEvents + 1
    /\ \E m \in AgainMouse : m # mouse /\ mouse' = m
    /\ opc' = "start"
    /\ UNCHANGED <<viewVars, needsUpdate, dragging, lastMousePos, dragStartOffset,
                   lastPeriod, juliaMarker, keyJ, keyAlt, pc, fieldVars,
                   mousePeriod, mouseOrbit, orb>>

NextOrbit == OrbitBegin \/ OrbitStep \/ OrbitEnd

(***************************************************************************)
(* One call of computeFractal, pixel by pixel and step by step, for the    *)
(* arguments a frame can pass and the pixels of CellSeq                    *)
(***************************************************************************)
FieldViews ==
    {View0, Dragged(View0, Vec(0 - 200, 0)), WheelScrolled(View0, Centre, 1),
     Wheels(View0, Vec(150, 300), 0 - 1, MaxWheelDown), ViewFar}

InitField ==
    /\ juliaMode \in BOOLEAN
    /\ \E v \in FieldViews :
         /\ zoom = v.zoom
         /\ offset = v.offset
         /\ juliaC \in IF juliaMode
                       THEN {MapPoint(m, v.zoom, v.offset) : m \in JuliaMouse}
                       ELSE {Complex(0, 0)}
    /\ formulaIndex \in 0..(NumFormulas - 1)
    /\ mouse = Centre
    /\ needsUpdate = TRUE /\ dragging = FALSE
    /\ lastMousePos = Origin /\ dragStartOffset = Vec(0, 0)
    /\ mousePeriod = 0 - 1 /\ mouseOrbit = <<>> /\ lastPeriod = 0 - 1
    /\ fractalImage = Black /\ juliaMarker = NoMarker
    /\ keyJ = juliaMode /\ keyAlt = FALSE /\ nEvents = 0 /\ pc = "orbit"
    /\ orb = NoOrbit /\ opc = "off"
    /\ cell = NoCell /\ fpc = "begin"

CellIndex(p) == CHOOSE i \in 1..NumCells : CellSeq[i] = Vec(p.px, p.py)

\* the loop headers pick the pixel; c = screenToComplex(px, py, ...); z and cc
\* by mode; iter = 0
CellBegin ==
    /\ fpc \in {"begin", "next"}
    /\ \E i \in 1..NumCells :
         /\ i = (IF fpc = "begin" THEN 1 ELSE CellIndex(cell) + 1)
         /\ cell' = CellStart(CellSeq[i].x, CellSeq[i].y,
                              FieldSeed(MapPoint(CellSeq[i], zoom, offset), juliaMode, juliaC))
    /\ fpc' = "loop"
    /\ UNCHANGED <<viewVars, uiVars, orbitVars, mouse, fractalImage>>

CellStep ==
    /\ fpc = "loop"
    /\ CellRunning(cell)
    /\ cell' = CellBody(cell, formulaIndex)
    /\ UNCHANGED <<viewVars, uiVars, orbitVars, mouse, fractalImage, fpc>>

\* color = 255 * iter / maxIter; fractalImage.setPixel(px, py, color)
CellEnd ==
    /\ fpc = "loop"
    /\ ~CellRunning(cell)
    /\ fractalImage' = [fractalImage EXCEPT ![CellIndex(cell)] = Grey(cell.iter)]
    /\ fpc' = IF CellIndex(cell) < NumCells THEN "next" ELSE "done"
    /\ UNCHANGED <<viewVars, uiVars, orbitVars, mouse, cell>>

\* a later pass of the main loop calls computeFractal again, after a key
\* has selected the next formula; fractalImage and the locals are as the
\* previous call left them
FieldAgain ==
    /\ fpc = "done"
    /\ nEvents < MaxQueries - 1
    /\ nEvents' = nEvents + 1
    /\ formulaIndex' = (formulaIndex + 1) % NumFormulas
    /\ fpc' = "begin"
    /\ UNCHANGED <<zoom, offset, juliaMode, juliaC, needsUpdate, dragging, lastMousePos,
                   dragStartOffset, lastPeriod, juliaMarker, keyJ, keyAlt, pc, mouse,
                   fractalImage, cell, orbitVars>>

NextField == CellBegin \/ CellStep \/ CellEnd

(***************************************************************************)
(* SpecEval: the two evaluators, each run step by step from the inputs     *)
(* above (a behaviour is one orbit query or one call of computeFractal)    *)
(***************************************************************************)
InitEval == InitOrbit \/ InitField

NextEval == NextOrbit \/ NextField

SpecEval == InitEval /\ [][NextEval]_vars

(***************************************************************************)
(* SpecAgain: the evaluators run step by step, MaxQueries times one after  *)
(* the other (a behaviour is a run of orbit queries or of computeFractal   *)
(* calls, each starting from what the one before left)                     *)
(***************************************************************************)
NextAgain == NextEval \/ OrbitAgain \/ FieldAgain

SpecAgain == InitEval /\ [][NextAgain]_vars

(***************************************************************************)
(* Properties of the orbit / period loop, checked under SpecEval           *)
(***************************************************************************)
Last(s) == s[Len(s)]

\* the last point of s lies within the tolerance of an earlier point of s
Matched(s) == \E j \in 1..(Len(s) - 1) : Near(Last(s), s[j])

\* the orbit query of the frame has finished for a mouse point in the grid
OrbitDone == opc = "done" /\ InGrid(mouse)

\* the terminal classifications, read off the recorded orbit
PeriodFound == OrbitDone /\ Matched(mouseOrbit)
Escaped == OrbitDone /\ ~Matched(mouseOrbit) /\ AbsGt2(Last(mouseOrbit))
Exhausted ==
    /\ OrbitDone
    /\ Len(mouseOrbit) = maxOrbit
    /\ ~Matched(mouseOrbit) /\ ~AbsGt2(Last(mouseOrbit))

\* C3: the orbit loop never applies the formula more than maxOrbit times;
\* when it has stopped, the trace is PeriodFound, Escaped or Exhausted, and
\* it is Exhausted (period = maxOrbit) exactly when all maxOrbit
\* applications ran and the last one neither matched nor escaped, every
\* other trace having stopped at its last point (period + 1 points)
OrbitTermination ==
    /\ Len(orb.orbit) <= maxOrbit
    /\ OrbitDone =>
         /\ mousePeriod \in 0..maxOrbit
         /\ Len(mouseOrbit) \in 1..maxOrbit
         /\ PeriodFound \/ Escaped \/ Exhausted
         /\ Exhausted <=> mousePeriod = maxOrbit
         /\ mousePeriod < maxOrbit => Len(mouseOrbit) = mousePeriod + 1

OrbitExhausted == Exhausted /\ mousePeriod = maxOrbit

\* C4: when the loop stops at step k without a match and before the step
\* bound, the k-th iterate has magnitude > 2 and every iterate before it has
\* magnitude <= 2
EscapeConsistency ==
    (OrbitDone /\ ~orb.found /\ mousePeriod < maxOrbit) =>
        /\ Len(mouseOrbit) = mousePeriod + 1
        /\ AbsGt2(mouseOrbit[mousePeriod + 1])
        /\ \A j \in 1..mousePeriod : AbsLe2(mouseOrbit[j])

EscapedLate == Escaped /\ ~orb.found /\ mousePeriod >= 3

\* the seed c = -1 of the initial viewport: -1 -> 0 -> -1 under formula 1
OnTwoCycle ==
    /\ zoom = View0.zoom /\ offset = View0.offset
    /\ mouse = Vec(150, 300) /\ ~juliaMode /\ formulaIndex = 0

\* C5: at every step of the loop the iterate just recorded lies within the
\* tolerance of an earlier recorded iterate exactly when found is set, so
\* the loop stops at the first such step k; it then reports period k with
\* k + 1 recorded points, and for the seed -1 on the 2-cycle of formula 1
\* it reports period 2 with 3 points
FirstRecurrence ==
    /\ (opc \in {"loop", "done"} /\ Len(orb.orbit) > 0) =>
          (orb.found <=> Matched(orb.orbit))
    /\ (opc = "loop" /\ orb.found) => orb.broke
    /\ (OrbitDone /\ orb.found) =>
          /\ mouseOrbit = orb.orbit
          /\ Len(mouseOrbit) = mousePeriod + 1
          /\ \E j \in 1..mousePeriod : Near(mouseOrbit[mousePeriod + 1], mouseOrbit[j])
    /\ (OrbitDone /\ OnTwoCycle) =>
          orb.found /\ mousePeriod = 2 /\ Len(mouseOrbit) = 3

TwoCycleFound == OrbitDone /\ OnTwoCycle /\ PeriodFound /\ mousePeriod = 2

(***************************************************************************)
(* Properties of computeFractal, checked under SpecEval                    *)
(***************************************************************************)
\* the pixel loop has just recorded the pixel held in cell
CellRecorded == fpc \in {"next", "done"}

\* C6: the iteration count of a pixel stays in 0..maxIter, and the grey
\* level 255 * iter / maxIter written for it is in 0..255 and is the level
\* stored in the image
FieldBounds ==
    /\ cell.iter \in 0..maxIter
    /\ (255 * cell.iter) \div maxIter \in 0..255
    /\ \A i \in 1..NumCells : fractalImage[i] \in 0..255
    /\ CellRecorded => fractalImage[CellIndex(cell)] = (255 * cell.iter) \div maxIter

FieldBothEnds ==
    /\ fpc = "done"
    /\ \E i \in 1..NumCells : fractalImage[i] = 255
    /\ \E i \in 1..NumCells : fractalImage[i] = 0

\* C7: the count of a pixel is the number of formula applications whose
\* result had magnitude <= 2 before the first one with magnitude > 2: the
\* loop has stopped early exactly at a result of magnitude > 2, the count
\* is maxIter exactly when no application escaped; in self-map mode under
\* formula 1 the pixel c = 0 records maxIter and the pixel c = 2 records 0
EscapeCount ==
    /\ (fpc = "loop" /\ cell.broke) => (AbsGt2(cell.z) /\ cell.iter < maxIter)
    /\ (fpc = "loop" /\ ~cell.broke /\ cell.iter > 0) => ~AbsGt2(cell.z)
    /\ CellRecorded => (cell.iter = maxIter <=> ~cell.broke)
    /\ (CellRecorded /\ ~juliaMode /\ formulaIndex = 0) =>
          /\ cell.cc = Complex(0, 0) => cell.iter = maxIter
          /\ cell.cc = Complex(Two, 0) => cell.iter \in {0, 1}

EscapeCountTwo ==
    /\ CellRecorded /\ ~juliaMode /\ formulaIndex = 0
    /\ cell.cc = Complex(Two, 0) /\ cell.iter = 0
    /\ \E i \in 1..NumCells : fractalImage[i] = 255

\* C8: a pixel evaluation and the orbit query both start from the mapped
\* point, and their constant term is that point in self-map mode and
\* juliaC in Julia mode, for the whole evaluation
ModeSelection ==
    /\ (fpc = "loop" /\ cell.iter = 0 /\ ~cell.broke) =>
          cell.z = MapPoint(Vec(cell.px, cell.py), zoom, offset)
    /\ fpc \in {"loop", "next", "done"} =>
          cell.cc = (IF juliaMode THEN juliaC
                     ELSE MapPoint(Vec(cell.px, cell.py), zoom, offset))
    /\ (opc = "loop" /\ Len(orb.orbit) = 0) => orb.z = MapPoint(mouse, zoom, offset)
    /\ opc = "loop" =>
          orb.cc = (IF juliaMode THEN juliaC ELSE MapPoint(mouse, zoom, offset))
    /\ juliaMode \in BOOLEAN

JuliaCell ==
    /\ juliaMode /\ fpc = "loop" /\ cell.iter = 0 /\ ~cell.broke
    /\ cell.cc = juliaC /\ cell.z # juliaC

\* C10: once an iterate is infinite or NaN the loop has stopped, counted as
\* an escape (the field loop and the orbit loop)
NonFinite(z) == ~IsFinite(z.re) \/ ~IsFinite(z.im)

NonFiniteEscapes ==
    /\ (fpc = "loop" /\ (cell.iter > 0 \/ cell.broke) /\ NonFinite(cell.z)) => cell.broke
    /\ (opc = "loop" /\ Len(orb.orbit) > 0 /\ NonFinite(orb.z)) => orb.broke

(***************************************************************************)
(* Properties of the main loop, checked under Spec                         *)
(***************************************************************************)
\* C1: when a frame has just been displayed, the image is the field of the
\* current zoom, offset, mode, juliaC and formula index
FieldFollowsInputs ==
    pc = "top" => fractalImage = computeFractal(zoom, offset, juliaMode, juliaC, formulaIndex)

\* x <= y on floats: false when either side is NaN
FLe(x, y) == ~IsNaN(x) /\ ~IsNaN(y) /\ x <= y

\* two points of the plane less than a pixel of the viewport apart
WithinPixel(a, b, zm) ==
    /\ FLe(FMul(FAbs(FSub(a.re, b.re)), zm), FromInt(1))
    /\ FLe(FMul(FAbs(FSub(a.im, b.im)), zm), FromInt(1))

\* C2: a wheel event that changes zoom leaves the complex point under the
\* mouse where it was (to within a pixel of the new viewport)
ZoomAboutPoint ==
    [][zoom' # zoom =>
         WithinPixel(MapPoint(mouse, zoom', offset'), MapPoint(mouse, zoom, offset), zoom')]_vars

\* grid coordinates followed through the mapping and back
GridSample == {Vec(0, 0), Vec(146, 300), Vec(150, 300), Vec(425, 50), Vec(799, 599)}

RoundTrip(g, zm, off) == complexToScreen(MapPoint(g, zm, off), zm, off, width, height)

\* C9 as stated: for a viewport with zoom > 0 the mapping followed by the
\* inverse transform gives back the grid coordinate
MappingInvertible ==
    (zoom > 0 /\ ~IsNaN(zoom)) =>
        \A g \in GridSample : RoundTrip(g, zoom, offset) = Vec(FromInt(g.x), FromInt(g.y))

\* the rounding of the six operations of the round trip of the coordinate
\* gi (offset component o, half size hs): 2^(3 - MantBits) of the magnitudes
\* involved, and the rounding of a quotient in the subnormal range scaled
\* by zoom
RoundTripTol(gi, o, hs, zm) ==
    (IAbs(FromInt(gi)) + IAbs(o) + FromInt(hs)) \div 2^(MantBits - 3)
        + zm \div 2^FracBits + 2

CloseTo(x, gi, o, hs, zm) ==
    IsFinite(x) => IAbs(x - FromInt(gi)) <= RoundTripTol(gi, o, hs, zm)

FiniteView(zm, off) == IsFinite(zm) /\ zm > 0 /\ IsFinite(off.x) /\ IsFinite(off.y)

BackWithin(p, g, zm, off) ==
    /\ CloseTo(p.x, g.x, off.x, width \div 2, zm)
    /\ CloseTo(p.y, g.y, off.y, height \div 2, zm)

\* C9 amended: for a finite viewport with zoom > 0, the round trip of a grid
\* coordinate that does not overflow gives the coordinate back to within
\* the rounding of its operations; so the Julia marker of a frame is drawn
\* at a mouse position, the one the frame took juliaC from
MappingInvertibleWithin ==
    /\ FiniteView(zoom, offset) =>
          \A g \in GridSample : BackWithin(RoundTrip(g, zoom, offset), g, zoom, offset)
    /\ (pc = "top" /\ juliaMode /\ FiniteView(zoom, offset)) =>
          /\ juliaMarker.shown
          /\ \E m \in MousePos : BackWithin(juliaMarker, m, zoom, offset)

MarkerInexact ==
    /\ pc = "top" /\ juliaMode /\ juliaMarker.shown
    /\ offset # View0.offset
    /\ \E g \in GridSample : RoundTrip(g, zoom, offset) # Vec(FromInt(g.x), FromInt(g.y))

\* the number printed on a digit key, 0 for any other key
KeyNumber(code) ==
    IF \E n \in 1..NumFormulas : KeyIs(code, n)
    THEN CHOOSE n \in 1..NumFormulas : KeyIs(code, n)
    ELSE 0

\* the orbit query of the last frame ran with the formula index fi
OrbitUsed(fi) ==
    \E o \in {OrbitLoop(OrbitStart(OrbitSeed(MapPoint(mouse, zoom, offset), juliaMode, juliaC)),
                        fi)} :
        mouseOrbit = o.orbit /\ mousePeriod = o.period

\* the image is a field of the formula index fi
FieldUsed(fi) ==
    \E jm \in BOOLEAN : fractalImage = computeFractal(zoom, offset, jm, juliaC, fi)

\* C11: the formula index is always one of 0..3; a KeyPressed event with
\* the digit key N sets it to N - 1, and no other step changes it; when a
\* frame has been displayed, the image and the orbit at the mouse are those
\* of the registry entry of the index
FormulaIndexValid ==
    /\ [](formulaIndex \in 0..(NumFormulas - 1))
    /\ []((pc = "top") => FieldUsed(formulaIndex))
    /\ []((pc = "top" /\ mousePeriod >= 0) => OrbitUsed(formulaIndex))
    /\ [][/\ \A code \in KeyCodes :
                (KeyPressedCode(code) /\ KeyNumber(code) > 0)
                    => formulaIndex' = KeyNumber(code) - 1
          /\ formulaIndex' # formulaIndex =>
                \E code \in KeyCodes : KeyNumber(code) > 0 /\ KeyPressedCode(code)]_vars

\* a frame displayed after key 3: the field of formula 3, which is not the
\* field of formula 1
FormulaThreeShown ==
    /\ pc = "top" /\ nEvents > 0 /\ formulaIndex = 2
    /\ fractalImage = computeFractal(zoom, offset, juliaMode, juliaC, 2)
    /\ fractalImage # computeFractal(zoom, offset, juliaMode, juliaC, 0)
    /\ mousePeriod >= 0

\* C12: zoom is a positive number (never zero, negative or NaN) after any
\* sequence of wheel events, each of which multiplies it by the zoom
\* factor, divides it by the zoom factor or leaves it unchanged
ZoomPositive ==
    /\ [](~IsNaN(zoom) /\ zoom > 0)
    /\ [][zoom' \in {zoom, FMul(zoom, zoomFactor), FDiv(zoom, zoomFactor)}]_vars

\* zoom has been divided down to the least value it can take: a further
\* division by the zoom factor rounds back to it
ZoomAtFloor ==
    /\ zoom < FromInt(1) /\ needsUpdate
    /\ WheelZoom(zoom, 0 - 1) = zoom

(***************************************************************************)
(* Properties of successive evaluations, checked under SpecAgain           *)
(***************************************************************************)
\* C13: the orbit and period that a query leaves, and the image that a
\* call of computeFractal leaves, are those of an evaluation of the same
\* inputs started from nothing, whatever the previous query or call left
\* behind
NoCarryOver ==
    /\ OrbitDone => OrbitUsed(formulaIndex)
    /\ fpc = "done" =>
          fractalImage = computeFractal(zoom, offset, juliaMode, juliaC, formulaIndex)

\* a second query, on the 2-cycle, after a query at another point that left
\* an orbit behind
SecondQueryDone ==
    /\ nEvents = 1 /\ OrbitDone /\ OnTwoCycle
    /\ mousePeriod = 2 /\ Len(mouseOrbit) = 3

\* C17: when the orbit query of a frame has finished: with the mouse
\* outside the grid the orbit is empty and the period is -1; with the mouse
\* inside, the period k is in 0..maxOrbit, the orbit has k + 1 points when
\* the loop was left early and maxOrbit points with k = maxOrbit when it
\* ran out, never more than maxOrbit
OrbitShape ==
    opc = "done" =>
        IF InGrid(mouse)
        THEN /\ mousePeriod \in 0..maxOrbit
             /\ Len(mouseOrbit) <= maxOrbit
             /\ orb.broke => (mousePeriod < maxOrbit /\ Len(mouseOrbit) = mousePeriod + 1)
             /\ ~orb.broke => (mousePeriod = maxOrbit /\ Len(mouseOrbit) = maxOrbit)
        ELSE mouseOrbit = <<>> /\ mousePeriod = 0 - 1

\* a query with the mouse outside the grid, after a query that recorded an
\* orbit
OrbitCleared ==
    /\ nEvents = 1 /\ opc = "done" /\ ~InGrid(mouse)
    /\ Len(orb.orbit) > 1 /\ mouseOrbit = <<>> /\ mousePeriod = 0 - 1

\* C14: a step of the orbit loop whose iterate lies within the tolerance of
\* an earlier iterate and also has magnitude > 2 sets found and stops the
\* loop as a recurrence (PeriodFound, the period being that step); a loop
\* that stopped without found stopped on an iterate of magnitude > 2 that
\* matches no earlier iterate, so Escaped is reported only then
MatchBeforeEscape ==
    /\ (/\ opc \in {"loop", "done"} /\ Len(orb.orbit) > 1
        /\ AbsGt2(Last(orb.orbit)) /\ Matched(orb.orbit)) =>
          orb.found /\ orb.broke /\ Len(orb.orbit) = orb.period + 1
    /\ (OrbitDone /\ AbsGt2(Last(mouseOrbit)) /\ Matched(mouseOrbit)) =>
          PeriodFound /\ ~Escaped /\ orb.found /\ Len(mouseOrbit) = mousePeriod + 1
    /\ (OrbitDone /\ orb.broke /\ ~orb.found) => Escaped

\* the query has stopped on an iterate that matches the first recorded
\* iterate and has magnitude > 2
MatchAndEscape ==
    /\ OrbitDone /\ orb.found /\ mousePeriod = 3
    /\ Near(mouseOrbit[4], mouseOrbit[1])
    /\ AbsGt2(mouseOrbit[4]) /\ AbsLe2(mouseOrbit[1])

(***************************************************************************)
(* Properties of the frame logic, checked under SpecPan and Spec           *)
(***************************************************************************)
\* the step is the camera dragging logic of a frame
DragStep == pc \in {"top", "poll"} /\ pc' = "julia"
\* the step is the Julia mode handling of a frame
JuliaStep == pc = "julia" /\ pc' = "orbit"

\* C15: dragging becomes true only at a left button press with Alt held
\* and is false after every left button release and focus loss; the frame
\* logic changes offset only in the dragging logic of a frame in which
\* dragging is set and Alt is held, and in such a frame it leaves offset
\* equal to dragStartOffset - (mouse - lastMousePos), whatever a wheel event
\* of the frame made of it, until the frame ends
DragMachine ==
    /\ [][(~dragging /\ dragging') => (MouseButtonPressed /\ keyAlt)]_vars
    /\ [][(MouseButtonReleased \/ LostFocus) => ~dragging']_vars
    /\ [][(DragStep /\ offset' # offset) => (dragging /\ keyAlt)]_vars
    /\ [][(DragStep /\ dragging /\ keyAlt) =>
            offset' = Vec(FSub(dragStartOffset.x, FromInt(mouse.x - lastMousePos.x)),
                          FSub(dragStartOffset.y, FromInt(mouse.y - lastMousePos.y)))]_vars
    /\ [][(pc \in {"julia", "orbit"}) => (offset' = offset)]_vars

\* the dragging logic of a frame has set the offset from a drag that began
\* at the window centre, after a wheel notch since the press changed the zoom
WheelOverridden ==
    /\ pc = "julia" /\ dragging /\ keyAlt /\ nEvents = MaxEvents
    /\ lastMousePos = Centre /\ mouse = Vec(150, 300)
    /\ zoom # View0.zoom
    /\ offset = Vec(FromInt(250), FromInt(0))
    /\ WheelScrolled([zoom |-> View0.zoom, offset |-> dragStartOffset], mouse, 1).offset
          # offset

\* C16: juliaC is assigned only by the Julia mode handling of a frame in
\* which J is held, and becomes the point under the mouse for the zoom and
\* offset of that frame; with J not held it keeps its value; juliaMode is
\* assigned only there and is, to the end of the frame, whether J was held
JuliaFrame ==
    /\ [][JuliaStep =>
            /\ juliaMode' = keyJ
            /\ keyJ => juliaC' = screenToComplex(mouse.x, mouse.y, zoom, offset, width, height)
            /\ ~keyJ => juliaC' = juliaC]_vars
    /\ [][~JuliaStep => (juliaC' = juliaC /\ juliaMode' = juliaMode)]_vars

\* a frame has taken the Julia constant from the mouse, away from the
\* centre, in a viewport that a wheel notch has changed
JuliaPicked ==
    /\ pc = "orbit" /\ juliaMode /\ keyJ
    /\ zoom # View0.zoom /\ mouse = Vec(150, 300)
    /\ juliaC = screenToComplex(150, 300, zoom, offset, width, height)
    /\ juliaC # Complex(0, 0)
====
